---- MODULE Spec2Model ----
(***************************************************************************)
(* Model of uploader.py: a batch job that lists a backup directory,        *)
(* uploads every matching entry to AWS Glacier or AWS S3, records Glacier  *)
(* archive ids in a history file and removes the local copies.             *)
(*                                                                         *)
(* Strings (paths, names, file contents) are sequences of one-character    *)
(* strings.  The local file system is a tree: `disk` maps a node (the      *)
(* sequence of its path components) to its kind.  The remote services and  *)
(* whoever else touches the directory are the environment: the outcome of  *)
(* a remote call and the external removal of a file are nondeterministic.  *)
(***************************************************************************)
EXTENDS Integers, Sequences, FiniteSets, TLC

\* Bounds of the model.
MaxNameLen == 2
MaxEntries == 2
MaxFiles == 3
MaxEnvRemovals == 1

Chars == {"a", "z"}
Sep == "/"

\* Sequences over Chars of length lo..hi.
Strings(lo, hi) == UNION {[1..k -> Chars] : k \in lo..hi}

(***************************************************************************)
(* Python values that cross function boundaries.                           *)
(***************************************************************************)
PyNone == [t |-> "None"]
PyStr(s) == [t |-> "str", s |-> s]
PyDict(d) == [t |-> "dict", d |-> d]

\* Python truthiness, for the values the program tests.
Truthy(v) ==
  CASE v.t = "None" -> FALSE
    [] v.t = "dict" -> DOMAIN v.d # {}
    [] v.t = "str" -> v.s # <<>>
    [] OTHER -> TRUE

\* dict.get(key): the value, or None when the key is missing.
DictGet(v, key) == IF key \in DOMAIN v.d THEN PyStr(v.d[key]) ELSE PyNone

\* json.dump of None or of a string without characters to escape.
JsonDump(v) ==
  IF v.t = "None" THEN <<"n", "u", "l", "l">> ELSE <<"\"">> \o v.s \o <<"\"">>

(***************************************************************************)
(* Paths and the file system.                                              *)
(***************************************************************************)
\* Index of the first separator of s, or Len(s) + 1.
FirstSep(s) ==
  IF \E i \in 1..Len(s) : s[i] = Sep
  THEN CHOOSE i \in 1..Len(s) : s[i] = Sep /\ \A j \in 1..(i - 1) : s[j] # Sep
  ELSE Len(s) + 1

\* The components of a path, as the operating system resolves it.
RECURSIVE Split(_)
Split(s) ==
  IF s = <<>> THEN <<>>
  ELSE IF Head(s) = Sep THEN Split(Tail(s))
  ELSE LET k == FirstSep(s)
       IN <<SubSeq(s, 1, k - 1)>> \o Split(SubSeq(s, k + 1, Len(s)))

\* os.path.join of two components.
Join(a, b) ==
  IF b # <<>> /\ Head(b) = Sep THEN b
  ELSE IF a = <<>> \/ a[Len(a)] = Sep THEN a \o b
  ELSE a \o <<Sep>> \o b

\* os.path.basename: what follows the last separator.
RECURSIVE basename(_)
basename(p) ==
  IF FirstSep(p) > Len(p) THEN p ELSE basename(SubSeq(p, FirstSep(p) + 1, Len(p)))

\* str.startswith: endswith with the test at the wrong end.
startswith(s, suffix) ==
  /\ Len(suffix) <= Len(s)
  /\ \A i \in 1..Len(suffix) : s[i] = suffix[i]

\* str.endswith.
endswith(s, suffix) ==
  /\ Len(suffix) <= Len(s)
  /\ \A i \in 1..Len(suffix) : s[Len(s) - Len(suffix) + i] = suffix[i]

\* os.listdir: the names of the immediate entries of a directory.
listdir(dk, dir) ==
  LET d == Split(dir)
  IN {n[Len(n)] : n \in {m \in DOMAIN dk : Len(m) = Len(d) + 1 /\ SubSeq(m, 1, Len(d)) = d}}

\* os.path.isfile.
isfile(dk, path) ==
  Split(path) \in DOMAIN dk /\ dk[Split(path)] \in {"file", "locked"}

\* os.remove of an existing regular file.
os_remove(dk, path) == [n \in DOMAIN dk \ {Split(path)} |-> dk[n]]

\* logging.<lvl>(msg): the record emitted.
LogRec(lvl, msg, about) == [lvl |-> lvl, msg |-> msg, about |-> about]

(***************************************************************************)
(* The functions of uploader.py.  Each returns what it returns (or raises) *)
(* together with its effects on the world it was given.                    *)
(***************************************************************************)
Return(v) == [t |-> "return", v |-> v]
Raise(e) == [t |-> "raise", e |-> e]
NotCalled == [t |-> "NotCalled"]

\* save_history with the file opened in mode w: the content is replaced.
save_history_truncate(content, data) == JsonDump(DictGet(data, "archiveId"))

\* save_history: the new content of the history file.
save_history(content, data) == content \o JsonDump(DictGet(data, "archiveId"))

\* find_backup: the set of paths collected over os.listdir(backup_dir).
find_backup(dk, dir, ext) ==
  {Join(dir, file) : file \in {f \in listdir(dk, dir) : ext = <<>> \/ endswith(f, ext)}}

\* remove_backup without the os.remove call: the file is found and kept.
remove_backup_keep(dk, file_name) ==
  [disk |-> dk, removed |-> FALSE,
   log |-> {LogRec("debug", "Trying to remove", file_name)}]

\* remove_backup: the disk afterwards, whether os.remove ran, what was logged.
remove_backup(dk, file_name) ==
  IF isfile(dk, file_name)
  THEN [disk |-> os_remove(dk, file_name), removed |-> TRUE,
        log |-> {LogRec("debug", "Trying to remove", file_name),
                 LogRec("debug", "removed", file_name)}]
  ELSE [disk |-> dk, removed |-> FALSE,
        log |-> {LogRec("debug", "Trying to remove", file_name),
                 LogRec("error", "not found", file_name)}]

\* open(path, 'rb'): a handle, or the OSError raised.
open_rb(dk, path) ==
  LET n == Split(path)
  IN IF n \notin DOMAIN dk THEN Raise("FileNotFoundError")
     ELSE IF dk[n] = "dir" THEN Raise("IsADirectoryError")
     ELSE IF dk[n] = "locked" THEN Raise("PermissionError")
     ELSE Return([t |-> "file", path |-> path])

\* read_object_data: bytes as they are, a str opened for binary read.
read_object_data(dk, src_data) ==
  IF src_data.t = "bytes" THEN [result |-> Return(src_data), log |-> {}]
  ELSE IF src_data.t = "str"
  THEN LET o == open_rb(dk, src_data.s)
       IN IF o.t = "return" THEN [result |-> o, log |-> {}]
          ELSE IF o.e = "FileNotFoundError"
          THEN [result |-> Return(PyNone),
                log |-> {LogRec("error", "Can't open src_data", <<>>)}]
          ELSE [result |-> o, log |-> {}]
  ELSE [result |-> Return(PyNone),
        log |-> {LogRec("error", "is not supported", <<>>)}]

\* The archive id the vault gives its next archive.
FreshId(vlt) == [i \in 1..(Len(vlt) + 1) |-> "x"]

\* upload_to_glacier with the remote call ending in `out`: what the call
\* returns or raises, the vault afterwards, whether the handle it opened is
\* still open when control leaves it, what it logged, and the remote outcome.
upload_to_glacier(dk, vlt, src_data, out) ==
  LET rd == read_object_data(dk, src_data)
  IN IF rd.result.t = "raise"
     THEN [result |-> rd.result, vault |-> vlt, open |-> FALSE,
           log |-> rd.log, remote |-> "none"]
     ELSE IF ~Truthy(rd.result.v)
     THEN [result |-> Return(PyNone), vault |-> vlt, open |-> FALSE,
           log |-> rd.log, remote |-> "none"]
     ELSE
       LET object_data == rd.result.v
           opened == object_data.t = "file"
           archive == IF out = "ok"
                      THEN PyDict([archiveId |-> FreshId(vlt)])
                      ELSE [t |-> "unbound"]
           closed == src_data.t = "str"
       IN CASE out = "ok" ->
                 [result |-> Return(archive),
                  vault |-> Append(vlt, [archiveId |-> FreshId(vlt),
                                         archiveDescription |-> src_data]),
                  open |-> opened /\ ~closed, log |-> rd.log, remote |-> out]
            [] out = "ClientError" ->
                 \* the except clause logs; `return archive` then reads a
                 \* name that was never bound
                 [result |-> IF archive.t = "unbound"
                             THEN Raise("UnboundLocalError")
                             ELSE Return(archive),
                  vault |-> vlt, open |-> opened /\ ~closed,
                  log |-> rd.log \cup {LogRec("debug", "err", <<>>),
                                       LogRec("error", "was not uploaded", src_data.s)},
                  remote |-> out]
            [] OTHER ->
                 \* any other exception leaves the try block at once
                 [result |-> Raise("BotoCoreError"), vault |-> vlt,
                  open |-> opened, log |-> rd.log, remote |-> out]

\* upload_to_s3 without the except clause: ClientError is not caught.
upload_to_s3_uncaught(dk, bkt, file_name, out) ==
  IF out = "ok" /\ open_rb(dk, file_name).t = "return"
  THEN [result |-> Return(PyNone), bucket |-> bkt \cup {basename(file_name)},
        log |-> {}, remote |-> out]
  ELSE IF out = "ok"
  THEN [result |-> open_rb(dk, file_name), bucket |-> bkt, log |-> {},
        remote |-> "none"]
  ELSE [result |-> Raise(out), bucket |-> bkt, log |-> {}, remote |-> out]

\* upload_to_s3 with the remote call ending in `out`.  upload_file reads the
\* file itself: it cannot succeed on a path that cannot be opened, and raises
\* the OSError instead.
upload_to_s3(dk, bkt, file_name, out) ==
  LET object_name == basename(file_name)
      o == open_rb(dk, file_name)
  IN CASE out = "ClientError" ->
            [result |-> Return(PyNone), bucket |-> bkt,
             log |-> {LogRec("debug", "err", <<>>),
                      LogRec("error", "was not uploaded", object_name)},
             remote |-> out]
       [] out = "ok" /\ o.t = "return" ->
            [result |-> Return(PyNone), bucket |-> bkt \cup {object_name},
             log |-> {}, remote |-> out]
       [] out = "ok" /\ o.t = "raise" ->
            [result |-> o, bucket |-> bkt, log |-> {}, remote |-> "none"]
       [] OTHER ->
            [result |-> Raise("BotoCoreError"), bucket |-> bkt,
             log |-> {}, remote |-> out]

RemoteOutcomes == {"ok", "ClientError", "OtherError"}

(***************************************************************************)
(* The state of one run.                                                   *)
(***************************************************************************)
VARIABLES
  mode,          \* args.mode
  backup_dir,    \* args.backup_dir
  backup_ext,    \* args.backup_ext
  disk,          \* the local file system
  vault,         \* the archives of the Glacier vault, in upload order
  bucket,        \* the object names of the S3 bucket
  hist_file,     \* the content of args.history_file
  hist_prior,    \* its content when the run started
  backups_set,   \* main's backups_set
  pending,       \* the files the for loop has not yet reached
  backup_file,   \* the loop variable
  open_handles,  \* the paths with a handle opened by upload_to_glacier still open
  attempts,      \* per located path, the calls of upload_to_glacier / upload_to_s3
  remote_out,    \* per located path, how its remote call ended ("none": no call)
  result,        \* per located path, what its upload call returned or raised
  removed,       \* the paths os.remove was called on
  log,           \* the records logged
  exit_status,   \* -1 while running, then the process's exit status
  env_removed,   \* the paths someone else removed during the run
  pc             \* "main", "loop", "called", "raised", "exited"

vars == <<mode, backup_dir, backup_ext, disk, vault, bucket, hist_file, hist_prior,
          backups_set, pending, backup_file, open_handles, attempts, remote_out,
          result, removed, log, exit_status, env_removed, pc>>

args == <<mode, backup_dir, backup_ext, hist_prior>>

\* The name of the backup directory and of the file a subdirectory may hold.
DirName == <<"d">>
NestedName == <<"a", "z">>

\* A disk: the backup directory, its entries with their kinds, and one file
\* inside each subdirectory of `nest`.
MkDisk(kind, nest) ==
  LET nodes == {<<DirName>>} \cup {<<DirName, n>> : n \in DOMAIN kind}
                 \cup {<<DirName, n, NestedName>> : n \in nest}
  IN [n \in nodes |-> IF Len(n) = 1 THEN "dir"
                      ELSE IF Len(n) = 2 THEN kind[n[2]] ELSE "file"]

\* Every disk with at most `most` entries named from `names`; a subdirectory
\* may hold a file when `nesting`.
Disks(names, kinds, most, nesting) ==
  UNION {UNION {{MkDisk(kind, nest)
                 : nest \in SUBSET {n \in S : nesting /\ kind[n] = "dir"}}
                : kind \in [S -> kinds]}
         : S \in {T \in SUBSET names : Cardinality(T) <= most}}

InitRun ==
  /\ vault = <<>>
  /\ bucket = {}
  /\ hist_file = hist_prior
  /\ backups_set = {}
  /\ pending = {}
  /\ backup_file = <<>>
  /\ open_handles = {}
  /\ attempts = <<>>
  /\ remote_out = <<>>
  /\ result = <<>>
  /\ removed = {}
  /\ log = {LogRec("info", "Start", <<>>)}
  /\ exit_status = -1
  /\ env_removed = {}
  /\ pc = "main"

\* The inputs of the runs: a suffix filter, names that match it and one that
\* does not, entries of every kind.
RunNames == {<<"z">>, <<"a", "z">>, <<"z", "z">>, <<"a">>}
RunExts == {<<"z">>}

RunDisks == Disks(RunNames, {"file", "dir", "locked"}, MaxFiles, FALSE)

Init ==
  /\ disk \in RunDisks
  /\ mode \in {"glacier", "s3"}
  /\ backup_dir = DirName
  /\ backup_ext \in RunExts
  /\ hist_prior \in {<<>>, JsonDump(PyStr(<<"p">>))}
  /\ InitRun

\* The inputs of find_backup: every name and suffix up to MaxNameLen, the
\* directory given with and without a trailing separator.
FindDisks == Disks(Strings(1, MaxNameLen), {"file", "dir"}, MaxEntries, TRUE)

InitFind ==
  /\ disk \in FindDisks
  /\ mode = "s3"
  /\ backup_dir \in {DirName, DirName \o <<Sep>>}
  /\ backup_ext \in Strings(0, MaxNameLen)
  /\ hist_prior = <<>>
  /\ InitRun

(***************************************************************************)
(* The steps of main.                                                      *)
(***************************************************************************)
\* sys.exit(lvl), or the interpreter ending on an uncaught exception: the
\* operating system closes what the process left open.
ProcessExit(lvl) ==
  /\ exit_status' = lvl
  /\ open_handles' = {}
  /\ pc' = "exited"

\* main without the check for an empty set.
Main_no_check ==
  /\ pc = "main"
  /\ LET found == find_backup(disk, backup_dir, backup_ext)
     IN /\ backups_set' = found
        /\ pending' = found
        /\ attempts' = [p \in found |-> 0]
        /\ remote_out' = [p \in found |-> "none"]
        /\ result' = [p \in found |-> NotCalled]
        /\ log' = log \cup {LogRec("debug", "added", p) : p \in found}
        /\ pc' = "loop"
        /\ UNCHANGED <<exit_status, open_handles>>
  /\ UNCHANGED <<args, disk, vault, bucket, hist_file, backup_file, removed, env_removed>>

\* main up to its dispatch: find_backup, and shutdown(1) on an empty set.
Main ==
  /\ pc = "main"
  /\ LET found == find_backup(disk, backup_dir, backup_ext)
     IN /\ backups_set' = found
        /\ pending' = found
        /\ attempts' = [p \in found |-> 0]
        /\ remote_out' = [p \in found |-> "none"]
        /\ result' = [p \in found |-> NotCalled]
        /\ IF found = {}
           THEN /\ log' = log \cup {LogRec("warning", "No backups found", backup_dir),
                                    LogRec("info", "Stop", <<>>)}
                /\ ProcessExit(1)
           ELSE /\ log' = log \cup {LogRec("debug", "added", p) : p \in found}
                /\ pc' = "loop"
                /\ UNCHANGED <<exit_status, open_handles>>
  /\ UNCHANGED <<args, disk, vault, bucket, hist_file, backup_file, removed, env_removed>>

\* upload_list_to_glacier: the loop takes a file and calls upload_to_glacier.
GlacierCall ==
  /\ pc = "loop"
  /\ mode = "glacier"
  /\ \E p \in pending, out \in RemoteOutcomes :
       LET u == upload_to_glacier(disk, vault, PyStr(p), out)
       IN /\ backup_file' = p
          /\ pending' = pending \ {p}
          /\ attempts' = [attempts EXCEPT ![p] = @ + 1]
          /\ remote_out' = [remote_out EXCEPT ![p] = u.remote]
          /\ result' = [result EXCEPT ![p] = u.result]
          /\ vault' = u.vault
          /\ open_handles' = IF u.open THEN open_handles \cup {p} ELSE open_handles
          /\ log' = log \cup u.log
          /\ pc' = IF u.result.t = "raise" THEN "raised" ELSE "called"
  /\ UNCHANGED <<args, disk, bucket, hist_file, backups_set, removed, exit_status,
                 env_removed>>

\* upload_list_to_glacier: the rest of the loop body, after the call returned.
GlacierRecord ==
  /\ pc = "called"
  /\ mode = "glacier"
  /\ LET archive == result[backup_file].v
     IN IF Truthy(archive)
        THEN LET r == remove_backup(disk, backup_file)
             IN /\ hist_file' = save_history(hist_file, archive)
                /\ disk' = r.disk
                /\ removed' = IF r.removed THEN removed \cup {backup_file} ELSE removed
                /\ log' = log \cup {LogRec("info", "added to", backup_file)} \cup r.log
        ELSE UNCHANGED <<hist_file, disk, removed, log>>
  /\ pc' = "loop"
  /\ UNCHANGED <<args, vault, bucket, backups_set, pending, backup_file, open_handles,
                 attempts, remote_out, result, exit_status, env_removed>>

\* upload_list_to_s3: the loop takes a file and calls upload_to_s3.
S3Call ==
  /\ pc = "loop"
  /\ mode = "s3"
  /\ \E p \in pending, out \in RemoteOutcomes :
       LET u == upload_to_s3(disk, bucket, p, out)
       IN /\ backup_file' = p
          /\ pending' = pending \ {p}
          /\ attempts' = [attempts EXCEPT ![p] = @ + 1]
          /\ remote_out' = [remote_out EXCEPT ![p] = u.remote]
          /\ result' = [result EXCEPT ![p] = u.result]
          /\ bucket' = u.bucket
          /\ log' = log \cup u.log
          /\ pc' = IF u.result.t = "raise" THEN "raised" ELSE "called"
  /\ UNCHANGED <<args, disk, vault, hist_file, backups_set, open_handles, removed,
                 exit_status, env_removed>>

\* upload_list_to_s3: the rest of the loop body, whatever the call did.
S3Cleanup ==
  /\ pc = "called"
  /\ mode = "s3"
  /\ LET r == remove_backup(disk, backup_file)
     IN /\ disk' = r.disk
        /\ removed' = IF r.removed THEN removed \cup {backup_file} ELSE removed
        /\ log' = log \cup {LogRec("info", "added to", backup_file)} \cup r.log
  /\ pc' = "loop"
  /\ UNCHANGED <<args, vault, bucket, hist_file, backups_set, pending, backup_file,
                 open_handles, attempts, remote_out, result, exit_status, env_removed>>

\* main after the loop: shutdown(0).
Shutdown ==
  /\ pc = "loop"
  /\ pending = {}
  /\ log' = log \cup {LogRec("info", "Stop", <<>>)}
  /\ ProcessExit(0)
  /\ UNCHANGED <<args, disk, vault, bucket, hist_file, backups_set, pending, backup_file,
                 attempts, remote_out, result, removed, env_removed>>

\* An exception nothing catches leaves main: the interpreter prints the
\* traceback and the process ends with status 1.
Uncaught ==
  /\ pc = "raised"
  /\ ProcessExit(1)
  /\ UNCHANGED <<args, disk, vault, bucket, hist_file, backups_set, pending, backup_file,
                 attempts, remote_out, result, removed, log, env_removed>>

\* Someone else removes a located file while the run is between two steps.
EnvRemove ==
  /\ pc \in {"loop", "called"}
  /\ Cardinality(env_removed) < MaxEnvRemovals
  /\ \E p \in backups_set :
       /\ isfile(disk, p)
       /\ disk' = os_remove(disk, p)
       /\ env_removed' = env_removed \cup {p}
  /\ UNCHANGED <<args, vault, bucket, hist_file, backups_set, pending, backup_file,
                 open_handles, attempts, remote_out, result, removed, log, exit_status,
                 pc>>

Next ==
  \/ Main
  \/ GlacierCall
  \/ GlacierRecord
  \/ S3Call
  \/ S3Cleanup
  \/ Shutdown
  \/ Uncaught
  \/ EnvRemove

Spec == Init /\ [][Next]_vars

\* find_backup alone, over every input.
NextFind == Main

SpecFind == InitFind /\ [][NextFind]_vars

(***************************************************************************)
(* Properties.                                                             *)
(***************************************************************************)
\* The upload call of p returned a non-empty result.
ReturnedResult(p) == result[p].t = "return" /\ Truthy(result[p].v)

\* Something still exists at path p.
OnDisk(p) == Split(p) \in DOMAIN disk

\* The loop body of p has run to its end (or the run ended inside it).
BodyDone(p) == attempts[p] > 0 /\ ~(pc = "called" /\ backup_file = p)

\* C1: in glacier mode, at the end of the run, a located file that nobody
\* else removed is gone from the disk iff its upload_to_glacier call returned
\* a non-empty result; the program removed no file whose call did not; and a
\* file whose upload_archive raised ClientError is still on the disk.
C1_GlacierDeletesIffResult ==
  (mode = "glacier" /\ pc = "exited") =>
    \A p \in backups_set :
      /\ p \in removed => ReturnedResult(p)
      /\ ReturnedResult(p) => ~OnDisk(p)
      /\ p \notin env_removed => (~OnDisk(p) <=> ReturnedResult(p))
      /\ (remote_out[p] = "ClientError" /\ p \notin env_removed) => OnDisk(p)

C1_Witness ==
  /\ mode = "glacier" /\ pc = "exited"
  /\ \E p, q \in backups_set :
       /\ ReturnedResult(p) /\ p \in removed /\ ~OnDisk(p)
       /\ remote_out[q] = "ClientError" /\ OnDisk(q)

C3_ExitZeroWhateverOutcomes ==
  (/\ pc = "exited"
   /\ backups_set # {}
   /\ \A p \in backups_set : attempts[p] > 0 => remote_out[p] \in {"ok", "ClientError"})
  => exit_status = 0

\* C4 (as claimed): when upload_archive raised ClientError, upload_to_glacier
\* logged the error and returned None, no exception escaped, and the file was
\* attempted once only.
C4_ClientErrorReturnsNone ==
  mode = "glacier" =>
    \A p \in backups_set :
      remote_out[p] = "ClientError" =>
        /\ result[p] = Return(PyNone)
        /\ LogRec("error", "was not uploaded", p) \in log
        /\ attempts[p] = 1

\* C5 (as claimed): at the end of a run over a non-empty located set whose
\* attempted uploads ended in success, in ClientError or in a skipped missing
\* file, every located file was attempted exactly once.
C5_EveryFileAttemptedOnce ==
  (/\ pc = "exited"
   /\ backups_set # {}
   /\ \A p \in backups_set :
        attempts[p] > 0 =>
          \/ remote_out[p] \in {"ok", "ClientError"}
          \/ result[p] = Return(PyNone))
  => \A p \in backups_set : attempts[p] = 1

\* C6: when find_backup returned an empty set, main logged the warning and
\* the process exited with status 1; nothing was uploaded, written to the
\* history file or removed.
C6_EmptySetExitsOne ==
  (pc # "main" /\ backups_set = {}) =>
    /\ pc = "exited"
    /\ exit_status = 1
    /\ LogRec("warning", "No backups found", backup_dir) \in log
    /\ vault = <<>> /\ bucket = {}
    /\ hist_file = hist_prior
    /\ removed = {}
    /\ DOMAIN attempts = {}

C6_Witness ==
  /\ pc = "exited" /\ backups_set = {} /\ exit_status = 1
  /\ listdir(disk, backup_dir) # {}

\* The history entries of the archives of vlt whose source is in rec, in
\* upload order.
RECURSIVE HistoryOf(_, _)
HistoryOf(vlt, rec) ==
  IF vlt = <<>> THEN <<>>
  ELSE (IF Head(vlt).archiveDescription.s \in rec
        THEN <<"\"">> \o Head(vlt).archiveId \o <<"\"">>
        ELSE <<>>) \o HistoryOf(Tail(vlt), rec)

\* C7: in glacier mode the history file holds its prior content followed by
\* one entry per upload that returned a result (and whose loop body is over),
\* in upload order; the vault holds exactly the archives of those uploads.
C7_HistoryAppendOnly ==
  mode = "glacier" =>
    LET succ == {p \in backups_set : ReturnedResult(p)}
    IN /\ Len(vault) = Cardinality(succ)
       /\ \A i \in 1..Len(vault) : vault[i].archiveDescription.s \in succ
       /\ hist_file = hist_prior \o HistoryOf(vault, {p \in succ : BodyDone(p)})

C7_Witness ==
  /\ mode = "glacier" /\ pc = "exited"
  /\ hist_prior # <<>>
  /\ \E p, q \in backups_set :
       /\ ReturnedResult(p)
       /\ attempts[q] > 0 /\ ~ReturnedResult(q)
  /\ Len(hist_file) = Len(hist_prior) + 3

\* C8 (as claimed): a call of upload_to_glacier on a path that cannot be
\* opened for binary read logs the failure, makes no remote call, returns
\* None, and no exception escapes.
C8_UnopenableReturnsNone ==
  [][(/\ pc = "loop" /\ mode = "glacier" /\ pc' \in {"called", "raised"}
      /\ open_rb(disk, backup_file').t = "raise")
     => /\ pc' = "called"
        /\ result'[backup_file'] = Return(PyNone)
        /\ remote_out'[backup_file'] = "none"
        /\ vault' = vault
        /\ LogRec("error", "Can't open src_data", <<>>) \in log']_vars

\* C9 (as claimed): whenever control has left upload_to_glacier, no handle
\* it opened is still open.
C9_HandleClosedOnExit ==
  pc \in {"loop", "called", "raised"} => open_handles = {}

\* s ends with e, stated without indices.
HasSuffix(s, e) == \E k \in 0..Len(s) : SubSeq(s, 1, k) \o e = s

\* C10: find_backup returns, for each immediate entry of the directory whose
\* name ends with the suffix (every entry when the suffix is empty), the
\* path join(dir, name), and nothing else: nothing from inside a
\* subdirectory, and no entry twice.
C10_FindBackupExact ==
  pc # "main" =>
    LET d == Split(backup_dir)
        wanted == {n \in DOMAIN disk :
                     /\ Len(n) = Len(d) + 1
                     /\ SubSeq(n, 1, Len(d)) = d
                     /\ (backup_ext = <<>> \/ HasSuffix(n[Len(n)], backup_ext))}
    IN /\ \A n \in wanted : \E p \in backups_set : Split(p) = n
       /\ \A p \in backups_set :
            /\ Split(p) \in wanted
            /\ p = Join(backup_dir, Split(p)[Len(d) + 1])
       /\ Cardinality(backups_set) = Cardinality(wanted)

C10_Witness ==
  /\ pc # "main"
  /\ backup_ext # <<>>
  /\ Cardinality(backups_set) = 1
  /\ \E n \in DOMAIN disk : Len(n) = 3 /\ HasSuffix(n[3], backup_ext)
  /\ \E n \in DOMAIN disk :
       Len(n) = 2 /\ ~HasSuffix(n[2], backup_ext) /\ disk[n] = "file"

====
